---- MODULE Spec2Model ----
(***************************************************************************)
(* Model of period_tracker_app.py: the Streamlit session state (periods,   *)
(* avg_cycle, avg_period_length, the form and query widgets), the          *)
(* save_period / delete_period handlers, and calculate_predictions, which  *)
(* every script run calls for today and for the query date.                *)
(*                                                                         *)
(* Dates are day counts from 2024-01-01 (day 0); the difference of two     *)
(* dates is the `.days` of the Python timedelta.  An Optional value is     *)
(* None (<<>>) or Some(v) (<<v>>).                                         *)
(***************************************************************************)
EXTENDS Integers, Sequences, FiniteSets, TLC

VARIABLES
    periods,            \* st.session_state.periods: list of {'start','end'}
    avg_cycle,          \* st.session_state.avg_cycle
    avg_period_length,  \* st.session_state.avg_period_length
    today,              \* date.today() as of the latest script run
    query_date,         \* st.session_state.query_date_expander_input
    new_period_start,   \* form value read by the latest save_period, else None
    new_period_end,     \* form value read by the latest save_period, else None
    today_data,         \* calculate_predictions(periods, avg_cycle, today)
    query_data,         \* calculate_predictions(periods, avg_cycle, query)
    multi_calc_done     \* history: a calculation over >= 2 records has run

vars == <<periods, avg_cycle, avg_period_length, today, query_date,
          new_period_start, new_period_end, today_data, query_data,
          multi_calc_done>>

----------------------------------------------------------------------------
\* Bounds of the session specification (Spec).
MaxDay == 2
MaxRecords == 2
MaxMensesLen == 2
QueryAhead == 2

\* Bounds of the estimator specification (SpecEst).
MaxEstDay == 5
MaxEstRecords == 3

\* Bounds of the classifier specification (SpecC).
MaxStartC == 1
MaxMensesC == 5
MaxGapC == 3
MaxAvgCycleC == 28
MaxTargetC == 58

\* Program constants.
DefaultAvgCycle == 28
DefaultAvgPeriodLength == 5
LutealDays == 14
FertileLeadDays == 5

None == <<>>
Some(v) == <<v>>

\* 2024-01-d as a day count from 2024-01-01.
Jan2024(d) == d - 1

Days == 0..MaxDay
QueryDays == 0..(MaxDay + QueryAhead)

----------------------------------------------------------------------------
\* Python arithmetic.

\* a // b for b # 0 (floor division).
PyFloorDiv(a, b) == IF b > 0 THEN a \div b ELSE (0 - a) \div (0 - b)

\* a % b for b # 0 (the result has the sign of b).
PyMod(a, b) == a - b * PyFloorDiv(a, b)

\* A mutant of PyRound: ties round up.
PyRound_HalfUp(n, d) ==
    LET q == n \div d
        r == n % d
    IN  IF 2 * r < d THEN q ELSE q + 1

\* round(n / d) for d > 0: nearest integer, ties to the even one.
PyRound(n, d) ==
    LET q == n \div d
        r == n % d
    IN  IF 2 * r < d THEN q
        ELSE IF 2 * r > d THEN q + 1
        ELSE IF q % 2 = 0 THEN q ELSE q + 1

----------------------------------------------------------------------------
\* calculate_predictions

RECURSIVE InsertDesc(_, _)
\* r placed in the descending list s after every element whose start is
\* >= r.start (Python's sort is stable, also with reverse=True).
InsertDesc(r, s) ==
    IF s = <<>> THEN <<r>>
    ELSE IF Head(s).start >= r.start THEN <<Head(s)>> \o InsertDesc(r, Tail(s))
    ELSE <<r>> \o s

RECURSIVE SortFrom(_, _)
SortFrom(ps, acc) ==
    IF ps = <<>> THEN acc ELSE SortFrom(Tail(ps), InsertDesc(Head(ps), acc))

\* A mutant of SortedPeriods: the list is used in insertion order.
SortedPeriods_Unsorted(ps) == ps

\* sorted(periods, key=lambda x: x['start'], reverse=True)
SortedPeriods(ps) == SortFrom(ps, <<>>)

RECURSIVE SumGaps(_, _)
\* sum((start_dates[i] - start_dates[i+1]).days for i in range(i0-1, n-1))
SumGaps(sp, i) ==
    IF i >= Len(sp) THEN 0
    ELSE (sp[i].start - sp[i + 1].start) + SumGaps(sp, i + 1)

TotalCycleLength(ps) == SumGaps(SortedPeriods(ps), 1)

RECURSIVE SumLengths(_)
\* sum((r['end'] - r['start']).days + 1 for r in periods)
SumLengths(ps) ==
    IF ps = <<>> THEN 0
    ELSE (Head(ps).end - Head(ps).start) + 1 + SumLengths(Tail(ps))

\* A mutant of AvgCycle: fewer than two records reset the average.
AvgCycle_Reset(ps, stored) ==
    IF Len(ps) > 1 THEN PyRound(TotalCycleLength(ps), Len(ps) - 1)
    ELSE DefaultAvgCycle

\* avg_cycle after the estimation: recomputed from two or more records,
\* else the value passed in.
AvgCycle(ps, stored) ==
    IF Len(ps) > 1 THEN PyRound(TotalCycleLength(ps), Len(ps) - 1)
    ELSE stored

\* st.session_state.avg_period_length after the estimation.
AvgPeriodLength(ps, stored) ==
    IF Len(ps) > 0 THEN PyRound(SumLengths(ps), Len(ps)) ELSE stored

\* A mutant of DayInProjectedCycle: a 0-based cycle day.
DayInProjectedCycle_ZeroBased(day, cycle) == PyMod(day - 1, cycle)

DayInProjectedCycle(day, cycle) == PyMod(day - 1, cycle) + 1

CyclesPassed(day, cycle) == PyFloorDiv(day - 1, cycle)

\* A mutant of ProjectedFertileStart: a five-day window.
ProjectedFertileStart_Short(ovulation) == ovulation - (FertileLeadDays - 1)

ProjectedFertileStart(ovulation) == ovulation - FertileLeadDays

\* A mutant of ProjectedStage: the fertile window opens the day after its
\* first day.
ProjectedStage_StrictStart(target, pcs, pme, pnps, pfs, pfe) ==
    IF target >= pcs /\ target <= pme THEN "MENSES_PROJECTED"
    ELSE IF target >= pnps THEN "DELAYED"
    ELSE IF target > pfe THEN "LUTEAL"
    ELSE IF target > pfs /\ target <= pfe THEN "FERTILE"
    ELSE IF target < pfs THEN "FOLLICULAR"
    ELSE "NO_DATA"

\* The if / elif chain of the projected mode; a target no test accepts
\* keeps the stage the result was created with.
ProjectedStage(target, pcs, pme, pnps, pfs, pfe) ==
    IF target >= pcs /\ target <= pme THEN "MENSES_PROJECTED"
    ELSE IF target >= pnps THEN "DELAYED"
    ELSE IF target > pfe THEN "LUTEAL"
    ELSE IF target >= pfs /\ target <= pfe THEN "FERTILE"
    ELSE IF target < pfs THEN "FOLLICULAR"
    ELSE "NO_DATA"

\* The result dictionary as created, before any record is read.
DefaultResult(cycle, stored_length, target) ==
    [ last_period_date     |-> None,
      next_period_start    |-> None,
      avg_cycle            |-> cycle,
      avg_period_length    |-> stored_length,
      current_stage        |-> "NO_DATA",
      stage_day            |-> None,
      day_since_start      |-> 0,
      last_period_end_date |-> None,
      target_date          |-> target,
      days_to_next_period  |-> None ]

\* The branch taken when target_date > last_period_end_date.
ProjectedResult(base, last_start, cycle, menses, target) ==
    LET day  == (target - last_start) + 1
    IN  IF cycle = 0
        THEN [base EXCEPT !.current_stage = "ZeroDivisionError"]
        ELSE
        LET dpc  == DayInProjectedCycle(day, cycle)
            pcs  == last_start + CyclesPassed(day, cycle) * cycle
            pnps == pcs + cycle
            pme  == pcs + (menses - 1)
            ov   == pnps - LutealDays
            pfs  == ProjectedFertileStart(ov)
            pfe  == ov
            stage == ProjectedStage(target, pcs, pme, pnps, pfs, pfe)
        IN  [base EXCEPT
               !.next_period_start   = Some(pnps),
               !.days_to_next_period =
                   IF stage = "DELAYED" THEN Some(0) ELSE Some(pnps - target),
               !.current_stage       = stage,
               !.stage_day           =
                   IF stage = "NO_DATA" THEN None ELSE Some(dpc)]

\* calculate_predictions(periods, avg_cycle, target_date), reading
\* st.session_state.avg_period_length as stored_length: the result.
CalculatePredictions(ps, cycle_arg, stored_length, target) ==
    IF ps = <<>> THEN DefaultResult(cycle_arg, stored_length, target)
    ELSE
    LET last   == SortedPeriods(ps)[1]
        cycle  == AvgCycle(ps, cycle_arg)
        menses == AvgPeriodLength(ps, stored_length)
        day    == (target - last.start) + 1
        base   == [DefaultResult(cycle, menses, target) EXCEPT
                     !.last_period_date     = Some(last.start),
                     !.last_period_end_date = Some(last.end),
                     !.day_since_start      = day]
        pnps0  == last.start + cycle
    IN  IF target < last.start THEN
            [base EXCEPT
               !.current_stage       = "HISTORICAL",
               !.next_period_start   = Some(pnps0),
               !.days_to_next_period =
                   IF pnps0 > target THEN Some(pnps0 - target) ELSE None]
        ELSE IF target <= last.end THEN
            [base EXCEPT
               !.current_stage       = "MENSES_RECORDED",
               !.stage_day           = Some(day),
               !.next_period_start   = Some(pnps0),
               !.days_to_next_period =
                   IF pnps0 > target THEN Some(pnps0 - target) ELSE Some(0)]
        ELSE ProjectedResult(base, last.start, cycle, menses, target)

----------------------------------------------------------------------------
\* The script body: both calls of calculate_predictions, the first for
\* today, the second for the query date with the session state the first
\* one left.
RunScript(ps, now, q) ==
    LET cycle1  == AvgCycle(ps, avg_cycle)
        length1 == AvgPeriodLength(ps, avg_period_length)
    IN  /\ today_data' = CalculatePredictions(ps, avg_cycle, avg_period_length, now)
        /\ query_data' = CalculatePredictions(ps, cycle1, length1, q)
        /\ avg_cycle' = AvgCycle(ps, cycle1)
        /\ avg_period_length' = AvgPeriodLength(ps, length1)
        /\ multi_calc_done' = (multi_calc_done \/ Len(ps) > 1)
        /\ periods' = ps
        /\ today' = now
        /\ query_date' = q

\* A mutant of StartExists: the duplicate test always fails.
StartExists_Never(ps, s) == FALSE

\* any(r['start'] == new_start_date for r in st.session_state.periods)
StartExists(ps, s) == \E i \in 1..Len(ps) : ps[i].start = s

\* The list save_period leaves for the form values (s, e).
SavedPeriods(ps, s, e) ==
    IF s <= e /\ ~StartExists(ps, s)
    THEN Append(ps, [start |-> s, end |-> e])
    ELSE ps

RECURSIVE WithoutStart(_, _)
\* [r for r in periods if r['start'] != target_date]
WithoutStart(ps, d) ==
    IF ps = <<>> THEN <<>>
    ELSE IF Head(ps).start # d THEN <<Head(ps)>> \o WithoutStart(Tail(ps), d)
    ELSE WithoutStart(Tail(ps), d)

\* The form is submitted with dates no later than today (max_value);
\* save_period runs, then the script body.
SavePeriod ==
    \E s \in 0..today :
      \E e \in 0..today :
        /\ e >= s - 1
        /\ e - s < MaxMensesLen
        /\ (Len(periods) < MaxRecords \/ StartExists(periods, s) \/ s > e)
        /\ new_period_start' = Some(s)
        /\ new_period_end' = Some(e)
        /\ RunScript(SavedPeriods(periods, s, e), today, query_date)

\* The delete button of a listed record: delete_period runs as the
\* callback with the record's start (its ISO string, which fromisoformat
\* parses back to the same date), then the script body.
DeletePeriod ==
    \E i \in 1..Len(periods) :
        /\ new_period_start' = None
        /\ new_period_end' = None
        /\ RunScript(WithoutStart(periods, periods[i].start), today, query_date)

\* The query date widget is changed; the script body runs.
ChangeQuery ==
    \E q \in QueryDays :
        /\ new_period_start' = None
        /\ new_period_end' = None
        /\ RunScript(periods, today, q)

\* Midnight passes; no script run.
Tick ==
    /\ today < MaxDay
    /\ today' = today + 1
    /\ UNCHANGED <<periods, avg_cycle, avg_period_length, query_date,
                   new_period_start, new_period_end, today_data, query_data,
                   multi_calc_done>>

\* The state a first script run leaves for the session state (ps, cycle,
\* len) on day now.
SessionAfterRun(ps, cycle, len, now) ==
    /\ periods = ps
    /\ avg_cycle = AvgCycle(ps, cycle)
    /\ avg_period_length = AvgPeriodLength(ps, len)
    /\ today = now
    /\ query_date = now
    /\ new_period_start = None
    /\ new_period_end = None
    /\ today_data = CalculatePredictions(ps, cycle, len, now)
    /\ query_data = CalculatePredictions(ps, AvgCycle(ps, cycle),
                                         AvgPeriodLength(ps, len), now)
    /\ multi_calc_done = (Len(ps) > 1)

\* A new session: the state initialisation and the first script run.
Init == SessionAfterRun(<<>>, DefaultAvgCycle, DefaultAvgPeriodLength, 0)

Next == SavePeriod \/ DeletePeriod \/ ChangeQuery \/ Tick

Spec == Init /\ [][Next]_vars

----------------------------------------------------------------------------
\* The estimator on drawn histories: two or more records with distinct
\* starts, in every insertion order.

\* The record that starts on day s; its length varies with s.
EstRecord(s) == [start |-> s, end |-> s + (s % MaxMensesLen)]

EstHistories ==
    UNION { { [i \in 1..n |-> EstRecord(f[i])] :
                f \in { g \in [1..n -> 0..MaxEstDay] :
                          \A i, j \in 1..n : i # j => g[i] # g[j] } } :
            n \in 2..MaxEstRecords }

InitEst ==
    \E ps \in EstHistories :
        SessionAfterRun(ps, DefaultAvgCycle, DefaultAvgPeriodLength,
                        MaxEstDay + MaxMensesLen)

NextEst == ChangeQuery

SpecEst == InitEst /\ [][NextEst]_vars

----------------------------------------------------------------------------
\* The classifier on drawn inputs: a history and the stored average cycle
\* length; the query date then walks over every target date of a range.

TargetsC == (0 - 1)..MaxTargetC

\* One record, with any stored average.
SingleHistories ==
    { <<[start |-> s, end |-> s + (len - 1)]>> :
        s \in 0..MaxStartC, len \in 1..MaxMensesC }

\* Two records, in both insertion orders; the average is recomputed.
DoubleHistories ==
    UNION { { <<[start |-> 0, end |-> a - 1], [start |-> g, end |-> g + (b - 1)]>>,
              <<[start |-> g, end |-> g + (b - 1)], [start |-> 0, end |-> a - 1]>> } :
            g \in 1..MaxGapC, a \in 1..MaxMensesC, b \in 1..MaxMensesC }

RECURSIVE MaxEnd(_)
MaxEnd(ps) ==
    IF Len(ps) = 1 THEN ps[1].end
    ELSE LET m == MaxEnd(Tail(ps))
         IN  IF Head(ps).end > m THEN Head(ps).end ELSE m

InitC ==
    \/ \E ps \in SingleHistories :
         \E stored \in 1..MaxAvgCycleC :
            SessionAfterRun(ps, stored, DefaultAvgPeriodLength, MaxEnd(ps))
    \/ \E ps \in DoubleHistories :
            SessionAfterRun(ps, DefaultAvgCycle, DefaultAvgPeriodLength, MaxEnd(ps))

\* The query date moves back by one day.
PrevDay ==
    /\ query_date - 1 \in TargetsC
    /\ new_period_start' = None
    /\ new_period_end' = None
    /\ RunScript(periods, today, query_date - 1)

\* The query date advances by one day.
NextDay ==
    /\ query_date + 1 \in TargetsC
    /\ new_period_start' = None
    /\ new_period_end' = None
    /\ RunScript(periods, today, query_date + 1)

NextC == NextDay \/ PrevDay

SpecC == InitC /\ [][NextC]_vars

----------------------------------------------------------------------------
\* Properties.

\* Both results of the latest script run.
Results == {today_data, query_data}

ProjectedStages == {"MENSES_PROJECTED", "FOLLICULAR", "FERTILE", "LUTEAL", "DELAYED"}

RealStages == ProjectedStages \cup {"HISTORICAL", "MENSES_RECORDED"}

\* The history [{start: 2024-01-01, end: 2024-01-05}] with averages 28 and 5.
ExampleHistory ==
    /\ periods = <<[start |-> Jan2024(1), end |-> Jan2024(5)]>>
    /\ avg_cycle = 28
    /\ avg_period_length = 5

\* C1: with the example history, the target 2024-01-29 (last.start + 28) is
\* classified DELAYED with 0 days until the next period.
C1_DelayedAtProjectedStart ==
    (ExampleHistory /\ query_date = Jan2024(29)) =>
        /\ query_data.current_stage = "DELAYED"
        /\ query_data.days_to_next_period = Some(0)

\* C2 as stated: with the example history, the target 2024-01-10 is
\* classified FOLLICULAR, cycle day 10, 19 days until the next period.
C2_FollicularOnJan10 ==
    (ExampleHistory /\ query_date = Jan2024(10)) =>
        /\ query_data.current_stage = "FOLLICULAR"
        /\ query_data.stage_day = Some(10)
        /\ query_data.days_to_next_period = Some(19)

\* C2 as amended: with the example history, the target 2024-01-10 is the
\* first day of the fertile window: FERTILE, cycle day 10, 19 days until
\* the next period.
C2_FertileOnJan10 ==
    (ExampleHistory /\ query_date = Jan2024(10)) =>
        /\ query_data.current_stage = "FERTILE"
        /\ query_data.stage_day = Some(10)
        /\ query_data.day_since_start = 10
        /\ query_data.days_to_next_period = Some(19)
        /\ query_data.next_period_start = Some(Jan2024(29))

C2_Witness ==
    /\ ExampleHistory
    /\ query_date = Jan2024(10)
    /\ query_data.target_date = Jan2024(10)
    /\ query_data.current_stage = "FERTILE"

\* C3: a calculation on an empty history reports the default statistics
\* (28 and 5), the no-data stage, and neither a next-period start nor days
\* to the next period, whatever happened earlier in the session.
C3_EmptyHistoryDefaults ==
    periods = <<>> =>
        \A r \in Results :
            /\ r.avg_cycle = DefaultAvgCycle
            /\ r.avg_period_length = DefaultAvgPeriodLength
            /\ r.current_stage = "NO_DATA"
            /\ r.next_period_start = None
            /\ r.days_to_next_period = None

\* C4: a script run that ends with exactly one record keeps the stored
\* average cycle length and reports it in both results; and with one record
\* and no earlier calculation over two or more records the stored and
\* reported value is the default 28.
C4_StickyAvgCycle ==
    /\ [][Len(periods') = 1 =>
            /\ avg_cycle' = avg_cycle
            /\ today_data'.avg_cycle = avg_cycle
            /\ query_data'.avg_cycle = avg_cycle]_vars
    /\ []((Len(periods) = 1 /\ ~multi_calc_done) =>
            /\ avg_cycle = DefaultAvgCycle
            /\ \A r \in Results : r.avg_cycle = DefaultAvgCycle)

C4_Witness ==
    /\ Len(periods) = 1
    /\ multi_calc_done
    /\ avg_cycle # DefaultAvgCycle
    /\ today_data.avg_cycle = avg_cycle
    /\ query_data.avg_cycle = avg_cycle

RECURSIVE MaxStart(_)
MaxStart(ps) ==
    IF Len(ps) = 1 THEN ps[1].start
    ELSE LET m == MaxStart(Tail(ps))
         IN  IF Head(ps).start > m THEN Head(ps).start ELSE m

RECURSIVE MinStart(_)
MinStart(ps) ==
    IF Len(ps) = 1 THEN ps[1].start
    ELSE LET m == MinStart(Tail(ps))
         IN  IF Head(ps).start < m THEN Head(ps).start ELSE m

\* The day gaps between consecutive starts add up to latest - earliest.
GapTotal == MaxStart(periods) - MinStart(periods)

Abs(x) == IF x < 0 THEN 0 - x ELSE x

\* C5 as stated: with two or more records avg_cycle is the mean gap rounded
\* to the nearest integer, a mean exactly halfway being rounded up.
C5_RoundHalfUp ==
    Len(periods) >= 2 =>
        LET m == Len(periods) - 1
        IN  /\ avg_cycle = (2 * GapTotal + m) \div (2 * m)
            /\ \A r \in Results : r.avg_cycle = avg_cycle

\* C5 as amended: with two or more records avg_cycle is the mean gap rounded
\* to the nearest integer, a mean exactly halfway being rounded to the even
\* neighbour.
C5_RoundHalfEven ==
    Len(periods) >= 2 =>
        LET m == Len(periods) - 1
            off == Abs(avg_cycle * m - GapTotal)
        IN  /\ 2 * off <= m
            /\ (2 * off = m => avg_cycle % 2 = 0)
            /\ \A r \in Results : r.avg_cycle = avg_cycle

\* Gaps 2 and 3 (mean 2.5) give 2.
C5_Witness ==
    /\ Len(periods) = 3
    /\ GapTotal = 5
    /\ avg_cycle = 2
    /\ query_data.avg_cycle = 2

\* The phases in the order the claim gives them.
PhaseRank(stage) ==
    CASE stage = "MENSES_PROJECTED" -> 0
      [] stage = "FOLLICULAR"       -> 1
      [] stage = "FERTILE"          -> 2
      [] stage = "LUTEAL"           -> 3
      [] stage = "DELAYED"          -> 4
      [] OTHER                      -> 0 - 1

\* C6: while the query date advances a day at a time from last.end + 1 to
\* last.start + avg_cycle, the stage never steps back in the order
\* MENSES (projected), FOLLICULAR, FERTILE, LUTEAL, DELAYED.
C6_PhaseOrder ==
    [][(/\ periods # <<>>
        /\ query_date' = query_date + 1
        /\ query_date > SortedPeriods(periods)[1].end
        /\ query_date' <= SortedPeriods(periods)[1].start + avg_cycle)
       => PhaseRank(query_data'.current_stage) >= PhaseRank(query_data.current_stage)]_vars

\* C7: no two records share a start date, and a save whose start date is
\* already recorded leaves the history unchanged.
C7_UniqueStarts ==
    /\ [](\A i, j \in 1..Len(periods) :
            i # j => periods[i].start # periods[j].start)
    /\ [][(/\ new_period_start' # None
           /\ \E i \in 1..Len(periods) : Some(periods[i].start) = new_period_start')
          => periods' = periods]_vars

\* A save of a recorded start with another end date was refused.
C7_Witness ==
    /\ new_period_start # None
    /\ new_period_end # None
    /\ \E i \in 1..Len(periods) :
          /\ Some(periods[i].start) = new_period_start
          /\ Some(periods[i].end) # new_period_end
          /\ new_period_end[1] >= new_period_start[1]

\* C8: the average cycle length stored and the one every classification
\* used is at least 1, and no classification divided by zero.
C8_PositiveAvgCycle ==
    /\ avg_cycle >= 1
    /\ \A r \in Results :
          /\ r.avg_cycle >= 1
          /\ r.current_stage # "ZeroDivisionError"

\* A recomputed average of 1 reached the modulo of the projected mode.
C8_Witness ==
    /\ Len(periods) >= 2
    /\ avg_cycle = 1
    /\ query_data.avg_cycle = 1
    /\ query_data.current_stage \in ProjectedStages

\* C9: for a target after last.end whose stage is not DELAYED,
\* days_to_next_period + cycle day = avg_cycle + 1, both in 1..avg_cycle.
C9_CycleDayComplement ==
    \A r \in Results :
        (/\ periods # <<>>
         /\ r.target_date > r.last_period_end_date[1]
         /\ r.current_stage # "DELAYED")
        => /\ r.stage_day # None
           /\ r.days_to_next_period # None
           /\ r.days_to_next_period[1] + r.stage_day[1] = r.avg_cycle + 1
           /\ r.stage_day[1] \in 1..r.avg_cycle
           /\ r.days_to_next_period[1] \in 1..r.avg_cycle

\* A target in the second projected cycle.
C9_Witness ==
    /\ periods # <<>>
    /\ query_data.target_date > query_data.last_period_end_date[1]
    /\ query_data.day_since_start > query_data.avg_cycle
    /\ query_data.avg_cycle > 1
    /\ query_data.stage_day = Some(2)
    /\ query_data.days_to_next_period = Some(query_data.avg_cycle - 1)

\* C10: on a non-empty history every classification ends in a real stage
\* with a next-period start.
C10_AlwaysClassified ==
    periods # <<>> =>
        \A r \in Results :
            /\ r.current_stage \in RealStages
            /\ r.next_period_start # None

\* The last test of the chain classified the target.
C10_Witness ==
    /\ periods # <<>>
    /\ query_data.current_stage = "FOLLICULAR"
    /\ query_data.next_period_start # None

====
